---------------------------- MODULE Spec2Model ----------------------------
(***************************************************************************)
(* Model of proxyco/x509: the EC signature formatter                       *)
(* (AsnEcSignatureFormatter), the multi-format decoder/encoder (PemData)   *)
(* and the certificate generator (X509CertificateGenerator.create).        *)
(*                                                                         *)
(* Three specifications share the module:                                  *)
(*   SpecSig  toAsnSignature / toWebSignature applied to bounded inputs    *)
(*   SpecPem  PemData.toString / PemData.toArrayBuffer on bounded inputs   *)
(*   Spec     concurrent X509CertificateGenerator.create calls             *)
(* Bytes are naturals 0..255, byte strings are sequences of bytes, text is *)
(* a sequence of character codes.                                          *)
(***************************************************************************)
EXTENDS Integers, Sequences, FiniteSets, TLC

VARIABLES
  namedCurveSize,   \* AsnEcSignatureFormatter.namedCurveSize (static Map)
  codecSignByte,    \* whether the structure codec's INTEGER encoder adds the sign byte
  fmtAlg,           \* formatter run: the algorithm argument
  fmtRaw,           \* formatter run: the raw (web) signature given, if any
  fmtAsn,           \* formatter run: the structured signature (result or input)
  fmtWeb,           \* formatter run: the result of toWebSignature
  fmtOrigin,        \* formatter run: "raw" (round trip) or "asn" (foreign input)
  fmtPc,            \* formatter run: "raw" -> "asn" -> "web"
  pemData,          \* codec run: rawData of the PemData object
  pemTag,           \* codec run: the object's PEM tag
  pemFormat,        \* codec run: the format argument of toString
  pemInput,         \* codec run: the argument of toArrayBuffer
  pemOut,           \* codec run: the result of toArrayBuffer
  pemOrigin,        \* codec run: "object" (encode, then decode) or "direct"
  pemPc,            \* codec run: "encode" -> "decode" -> "done" | "failed"
  registry,         \* signature formatters registered in the container, in registration order
  callPc,           \* create call: "idle" -> "export" -> "sign" -> "done" | "failed"
  callEntry,        \* create call: "create" or "createSelfSigned"
  callParams,       \* create call: the params argument of create
  callFrame,        \* create call: the locals alive across the await of sign
  callExt,          \* create call: what exportKey and sign answered
  callSigned,       \* create call: the arguments sign was called with
  callTrace,        \* create call: the calls made, in order
  callResult        \* create call: the certificate returned or the error thrown

fmtVars == <<fmtAlg, fmtRaw, fmtAsn, fmtWeb, fmtOrigin, fmtPc>>

pemVars == <<pemData, pemTag, pemFormat, pemInput, pemOut, pemOrigin, pemPc>>

createVars == <<registry, callPc, callEntry, callParams, callFrame, callExt, callSigned,
                callTrace, callResult>>

vars == <<namedCurveSize, codecSignByte, fmtVars, pemVars, createVars>>

----------------------------------------------------------------------------
(* Bounds *)

\* Coordinate width of the widest registered curve of the model.
MaxPointSize == 2

\* Byte values the enumerated signatures are built from: zero, a small value,
\* and values on both sides of the sign bit.
ByteVals == {0, 1, 127, 128, 255}

\* Byte values of the integers inside foreign structured signatures.
AsnVals == {0, 1, 128}

\* Longest rawData of an encoded object, and the byte values it is built from
\* (105 183 29 is "abcd" in base64, 104 is "aA" in base64url).
MaxDataLen == 3

PemByteVals == {0, 29, 104, 105, 183, 255}

\* Longest enumerated text given to toArrayBuffer directly, and its characters.
MaxTextLen == 4

TextChars == {"a", "0", "Q", "=", "-", "+"}

\* Concurrent create / createSelfSigned calls.
MaxCalls == 2

Calls == 1..MaxCalls

----------------------------------------------------------------------------
(* Values shared by the operations *)

Bytes(v) == [kind |-> "bytes", val |-> v, err |-> ""]

Null == [kind |-> "null", val |-> <<>>, err |-> ""]

Throw(e) == [kind |-> "error", val |-> <<>>, err |-> e]

Zeros(n) == [i \in 1..n |-> 0]

Min2(a, b) == IF a < b THEN a ELSE b

\* Uint8Array.prototype.slice(start, end) for 0 <= start <= end: clamped to the length.
Slice(bytes, start, end) == SubSeq(bytes, Min2(start, Len(bytes)) + 1, Min2(end, Len(bytes)))

\* All sequences over S of length 0..n.
SeqsUpTo(S, n) == UNION {[1..k -> S] : k \in 0..n}

\* A property of an algorithm descriptor; "undefined" when it is absent.
Field(algorithm, f) == IF f \in DOMAIN algorithm THEN algorithm[f] ELSE "undefined"

----------------------------------------------------------------------------
(* The structure codec for ECDSASigValue ::= SEQUENCE { r INTEGER, s INTEGER } *)

DerLength(n) == IF n < 128 THEN <<n>> ELSE <<129, n>>

\* The INTEGER converter's content octets for an unsigned magnitude.
IntegerToASN(value) ==
  IF codecSignByte
    THEN IF Len(value) = 0 THEN <<0>>
         ELSE IF value[1] >= 128 THEN <<0>> \o value ELSE value
    ELSE value

DerInteger(content) == <<2>> \o DerLength(Len(content)) \o content

DerSequence(body) == <<48>> \o DerLength(Len(body)) \o body

\* AsnConvert.serialize(ecSignature)
SerializeEcSig(r, s) == DerSequence(DerInteger(IntegerToASN(r)) \o DerInteger(IntegerToASN(s)))

\* One tag-length-value at 1-based position pos: [ok, val, next].
ReadTLV(b, pos, tag) ==
  LET n == Len(b)
      bad == [ok |-> FALSE, val |-> <<>>, next |-> 0]
  IN IF pos + 1 > n \/ b[pos] # tag THEN bad
     ELSE LET long == b[pos + 1] >= 128
              okLen == IF long THEN b[pos + 1] = 129 /\ pos + 2 <= n ELSE TRUE
          IN IF ~okLen THEN bad
             ELSE LET len == IF long THEN b[pos + 2] ELSE b[pos + 1]
                      first == IF long THEN pos + 3 ELSE pos + 2
                  IN IF first + len - 1 > n THEN bad
                     ELSE [ok |-> TRUE, val |-> SubSeq(b, first, first + len - 1),
                           next |-> first + len]

\* AsnConvert.parse(signature, ECDSASigValue): [ok, r, s]; r and s are the
\* INTEGERs' content octets as they stand (a sign byte included).
ParseEcSig(b) ==
  LET bad == [ok |-> FALSE, r |-> <<>>, s |-> <<>>]
      seq == ReadTLV(b, 1, 48)
  IN IF ~seq.ok \/ seq.next # Len(b) + 1 THEN bad
     ELSE LET r == ReadTLV(seq.val, 1, 2)
          IN IF ~r.ok THEN bad
             ELSE LET s == ReadTLV(seq.val, r.next, 2)
                  IN IF ~s.ok \/ s.next # Len(seq.val) + 1 THEN bad
                     ELSE [ok |-> TRUE, r |-> r.val, s |-> s.val]

----------------------------------------------------------------------------
(* AsnEcSignatureFormatter *)

defaultNamedCurveSize == 32

\* namedCurveSize.get(namedCurve) || defaultNamedCurveSize
PointSize(namedCurve) ==
  LET got == IF namedCurve \in DOMAIN namedCurveSize THEN namedCurveSize[namedCurve] ELSE 0
  IN IF got = 0 THEN defaultNamedCurveSize ELSE got

\* addPadding with the bytes copied to offset 0 (padding on the wrong side).
addPaddingAtStart(pointSize, data) ==
  IF pointSize - Len(data) < 0
    THEN Throw("RangeError")
    ELSE Bytes(data \o Zeros(pointSize - Len(data)))

\* addPadding that keeps the low pointSize bytes of a value that is too long.
addPaddingTruncating(pointSize, data) ==
  IF pointSize - Len(data) < 0
    THEN Bytes(SubSeq(data, Len(data) - pointSize + 1, Len(data)))
    ELSE Bytes(Zeros(pointSize - Len(data)) \o data)

\* res = new Uint8Array(pointSize); res.set(bytes, pointSize - bytes.length):
\* a negative offset makes set() throw a RangeError.
addPadding(pointSize, data) ==
  IF pointSize - Len(data) < 0
    THEN Throw("RangeError")
    ELSE Bytes(Zeros(pointSize - Len(data)) \o data)

\* The bytes from the first non-zero byte on; empty when there is none.
removePadding(data) ==
  LET nonZero == {i \in 1..Len(data) : data[i] # 0}
  IN IF nonZero = {} THEN <<>>
     ELSE SubSeq(data, CHOOSE i \in nonZero : \A j \in nonZero : i <= j, Len(data))

toAsnSignature(algorithm, signature) ==
  IF Field(algorithm, "name") = "ECDSA"
    THEN LET pointSize == PointSize(Field(algorithm, "namedCurve"))
             r == removePadding(Slice(signature, 0, pointSize))
             s == removePadding(Slice(signature, pointSize, pointSize + pointSize))
         IN Bytes(SerializeEcSig(r, s))
    ELSE Null

\* combine(r, s)
combine(r, s) == r \o s

toWebSignature(algorithm, signature) ==
  IF Field(algorithm, "name") = "ECDSA"
    THEN LET ecSigValue == ParseEcSig(signature)
             pointSize == PointSize(Field(algorithm, "namedCurve"))
         IN IF ~ecSigValue.ok THEN Throw("ParseError")
            ELSE LET r == addPadding(pointSize, removePadding(ecSigValue.r))
                     s == addPadding(pointSize, removePadding(ecSigValue.s))
                 IN IF r.kind = "error" THEN r
                    ELSE IF s.kind = "error" THEN s
                    ELSE Bytes(combine(r.val, s.val))
    ELSE Null

----------------------------------------------------------------------------
(* SpecSig: the formatter applied to bounded inputs *)

\* The point-size table after setup: two registered curves.
RegisteredSizes == [c \in {"K-small", "K-big"} |-> IF c = "K-small" THEN 1 ELSE MaxPointSize]

\* Algorithm descriptors given to the formatter.
FmtAlgorithms ==
  {[name |-> "ECDSA", namedCurve |-> c] : c \in {"K-small", "K-big", "K-unregistered"}}
    \cup {[name |-> "ECDSA"], [name |-> "RSASSA-PKCS1-v1_5"]}

\* A coordinate of width P: z zero bytes, then byte b repeated.
Half(P, z, b) == [i \in 1..P |-> IF i <= z THEN 0 ELSE b]

\* Raw signatures tried for point size P: every byte string up to 2P bytes for
\* the small curves, a family of padded coordinates for the wide ones.
RawSignatures(P) ==
  IF P <= MaxPointSize
    THEN SeqsUpTo(ByteVals, 2 * P)
    ELSE {Half(P, zr, br) \o Half(P, zs, bs) :
            zr \in {0, 1, P - 1, P}, zs \in {0, P - 1, P},
            br \in {1, 128}, bs \in {127, 255}}
         \cup {Half(P, 0, 255), Half(P, 0, 1) \o Half(P - 1, 0, 1)}

\* Structured signatures from elsewhere: integers of up to P + 1 content
\* octets (leading zeros, oversized magnitudes), and a few that do not parse.
ForeignAsn(P) ==
  IF P <= MaxPointSize
    THEN {DerSequence(DerInteger(r) \o DerInteger(s)) : r, s \in SeqsUpTo(AsnVals, P + 1)}
         \cup {<<>>, <<48>>, <<48, 0>>, <<48, 3, 2, 1, 5>>, <<48, 2, 2, 1>>, <<4, 0>>}
    ELSE {DerSequence(DerInteger(r) \o DerInteger(s)) :
            r, s \in {<<>>, Half(P, 0, 128), <<0>> \o Half(P, 0, 128),
                      Half(P + 1, 0, 1), <<0, 0>> \o Half(P, 1, 7)}}

Text(t) == [kind |-> "string", text |-> t, bytes |-> <<>>]

Buffer(b) == [kind |-> "buffer", text |-> <<>>, bytes |-> b]

NoAlgorithm == [name |-> "none"]

NoData == [der |-> "none"]

NoParams == [serialNumber |-> <<>>]

NoFrame == [asnX509 |-> NoData, signingAlgorithm |-> NoAlgorithm, tbs |-> NoData]

NoSignCall == [algorithm |-> NoAlgorithm, key |-> "none", data |-> NoData]

\* An answer of the external crypto provider: pending, resolved or rejected.
Pending == [state |-> "pending", val |-> <<>>, err |-> ""]

Resolved(v) == [state |-> "resolved", val |-> v, err |-> ""]

Rejected(e) == [state |-> "rejected", val |-> <<>>, err |-> e]

NoExt == [export |-> Pending, sign |-> Pending]

\* The outcome of a create call.
NoResult == [kind |-> "none", rawData |-> NoData, err |-> ""]

Certificate(rawData) == [kind |-> "certificate", rawData |-> rawData, err |-> ""]

Failure(e) == [kind |-> "error", rawData |-> NoData, err |-> e]

\* No create call made, no formatter registered.
CreateIdle ==
  /\ registry = <<>>
  /\ callPc = [c \in Calls |-> "idle"]
  /\ callEntry = [c \in Calls |-> "none"]
  /\ callParams = [c \in Calls |-> NoParams]
  /\ callFrame = [c \in Calls |-> NoFrame]
  /\ callExt = [c \in Calls |-> NoExt]
  /\ callSigned = [c \in Calls |-> NoSignCall]
  /\ callTrace = [c \in Calls |-> <<>>]
  /\ callResult = [c \in Calls |-> NoResult]

\* No formatter run in progress.
FmtIdle ==
  /\ fmtAlg = NoAlgorithm
  /\ fmtRaw = <<>>
  /\ fmtAsn = Null
  /\ fmtWeb = Null
  /\ fmtOrigin = "none"
  /\ fmtPc = "idle"

\* No codec run in progress.
PemIdle ==
  /\ pemData = <<>>
  /\ pemTag = <<>>
  /\ pemFormat = "none"
  /\ pemInput = Buffer(<<>>)
  /\ pemOut = Null
  /\ pemOrigin = "none"
  /\ pemPc = "idle"

InitSig ==
  /\ PemIdle
  /\ CreateIdle
  /\ namedCurveSize = RegisteredSizes
  /\ codecSignByte \in BOOLEAN
  /\ fmtAlg \in FmtAlgorithms
  /\ fmtWeb = Null
  /\ \/ /\ fmtOrigin = "raw"
        /\ fmtPc = "raw"
        /\ fmtRaw \in RawSignatures(PointSize(Field(fmtAlg, "namedCurve")))
        /\ fmtAsn = Null
     \/ /\ fmtOrigin = "asn"
        /\ fmtPc = "asn"
        /\ fmtRaw = <<>>
        /\ fmtAsn \in {Bytes(a) : a \in ForeignAsn(PointSize(Field(fmtAlg, "namedCurve")))}

FmtToAsn ==
  /\ fmtPc = "raw"
  /\ fmtAsn' = toAsnSignature(fmtAlg, fmtRaw)
  /\ fmtPc' = "asn"
  /\ UNCHANGED <<namedCurveSize, codecSignByte, fmtAlg, fmtRaw, fmtWeb, fmtOrigin>>
  /\ UNCHANGED <<pemVars, createVars>>

FmtToWeb ==
  /\ fmtPc = "asn"
  /\ fmtAsn.kind = "bytes"
  /\ fmtWeb' = toWebSignature(fmtAlg, fmtAsn.val)
  /\ fmtPc' = "web"
  /\ UNCHANGED <<namedCurveSize, codecSignByte, fmtAlg, fmtRaw, fmtAsn, fmtOrigin>>
  /\ UNCHANGED <<pemVars, createVars>>

NextSig == FmtToAsn \/ FmtToWeb

SpecSig == InitSig /\ [][NextSig]_vars

----------------------------------------------------------------------------
(* Text: a sequence of one-character strings *)

HexDigits == <<"0", "1", "2", "3", "4", "5", "6", "7", "8", "9", "a", "b", "c", "d", "e", "f">>

UpperHexDigits == <<"0", "1", "2", "3", "4", "5", "6", "7", "8", "9", "A", "B", "C", "D", "E", "F">>

Base64Alphabet ==
  <<"A", "B", "C", "D", "E", "F", "G", "H", "I", "J", "K", "L", "M", "N",
    "O", "P", "Q", "R", "S", "T", "U", "V", "W", "X", "Y", "Z", "a", "b",
    "c", "d", "e", "f", "g", "h", "i", "j", "k", "l", "m", "n", "o", "p",
    "q", "r", "s", "t", "u", "v", "w", "x", "y", "z", "0", "1", "2", "3",
    "4", "5", "6", "7", "8", "9", "+", "/">>

Base64UrlAlphabet ==
  <<"A", "B", "C", "D", "E", "F", "G", "H", "I", "J", "K", "L", "M", "N",
    "O", "P", "Q", "R", "S", "T", "U", "V", "W", "X", "Y", "Z", "a", "b",
    "c", "d", "e", "f", "g", "h", "i", "j", "k", "l", "m", "n", "o", "p",
    "q", "r", "s", "t", "u", "v", "w", "x", "y", "z", "0", "1", "2", "3",
    "4", "5", "6", "7", "8", "9", "-", "_">>

Range(f) == {f[i] : i \in DOMAIN f}

IndexOf(alphabet, c) == CHOOSE i \in DOMAIN alphabet : alphabet[i] = c

\* text[pos ..] starts with pat (1-based pos).
Match(text, pos, pat) ==
  /\ pos >= 1
  /\ pos + Len(pat) - 1 <= Len(text)
  /\ SubSeq(text, pos, pos + Len(pat) - 1) = pat

----------------------------------------------------------------------------
(* Convert (pvtsutils): hex, base64 and base64url *)

\* Convert.ToHex: two lower-case digits per byte.
ToHex(bytes) ==
  [i \in 1..2 * Len(bytes) |->
     LET b == bytes[(i + 1) \div 2]
     IN IF i % 2 = 1 THEN HexDigits[(b \div 16) + 1] ELSE HexDigits[(b % 16) + 1]]

\* Convert.isHex: a non-empty run of hex digits of either case.
isHex(text) ==
  /\ Len(text) > 0
  /\ \A i \in 1..Len(text) : text[i] \in Range(HexDigits) \cup Range(UpperHexDigits)

HexValue(c) ==
  IF c \in Range(HexDigits) THEN IndexOf(HexDigits, c) - 1 ELSE IndexOf(UpperHexDigits, c) - 1

\* Convert.FromHex of a hex string: an odd number of digits gets a leading "0".
FromHex(text) ==
  LET even == IF Len(text) % 2 = 1 THEN <<"0">> \o text ELSE text
  IN [i \in 1..Len(even) \div 2 |-> HexValue(even[2 * i - 1]) * 16 + HexValue(even[2 * i])]

\* The 6-bit digits of a byte string, most significant first, the last one
\* filled with zero bits.
SixBitDigits(bytes) ==
  LET n == Len(bytes)
      at(j) == IF j <= n THEN bytes[j] ELSE 0
      digit(k) ==
        LET g == (k - 1) \div 4
            b1 == at(3 * g + 1)
            b2 == at(3 * g + 2)
            b3 == at(3 * g + 3)
        IN CASE (k - 1) % 4 = 0 -> b1 \div 4
             [] (k - 1) % 4 = 1 -> (b1 % 4) * 16 + (b2 \div 16)
             [] (k - 1) % 4 = 2 -> (b2 % 16) * 4 + (b3 \div 64)
             [] OTHER -> b3 % 64
  IN [k \in 1..(8 * n + 5) \div 6 |-> digit(k)]

\* The bytes of a sequence of 6-bit digits (bits past the last whole byte dropped).
BytesOfDigits(digits) ==
  LET at(q) == IF q <= Len(digits) THEN digits[q] ELSE 0
  IN [j \in 1..(6 * Len(digits)) \div 8 |->
        LET bit == 8 * (j - 1)
            q == (bit \div 6) + 1
            w == at(q) * 64 + at(q + 1)
        IN (w \div (2 ^ (4 - (bit % 6)))) % 256]

\* Convert.ToBase64: standard alphabet, padded with "=" to a multiple of 4.
ToBase64(bytes) ==
  LET digits == SixBitDigits(bytes)
      pad == (4 - (Len(digits) % 4)) % 4
  IN [k \in 1..Len(digits) |-> Base64Alphabet[digits[k] + 1]] \o [k \in 1..pad |-> "="]

\* Convert.ToBase64Url: URL-safe alphabet, no padding.
ToBase64Url(bytes) ==
  LET digits == SixBitDigits(bytes)
  IN [k \in 1..Len(digits) |-> Base64UrlAlphabet[digits[k] + 1]]

\* Convert.isBase64: groups of four standard characters, the last group
\* possibly ending in "=" or "==".
isBase64(text) ==
  LET n == Len(text)
      std(i) == text[i] \in Range(Base64Alphabet)
  IN /\ n % 4 = 0
     /\ \A i \in 1..n - 2 : std(i)
     /\ n > 0 => \/ std(n - 1) /\ std(n)
                 \/ std(n - 1) /\ text[n] = "="
                 \/ text[n - 1] = "=" /\ text[n] = "="

\* Convert.isBase64Url: a non-empty run of URL-safe characters.
isBase64Url(text) ==
  /\ Len(text) > 0
  /\ \A i \in 1..Len(text) : text[i] \in Range(Base64UrlAlphabet)

\* Convert.FromBase64 of a base64 string.
FromBase64(text) ==
  LET body == SelectSeq(text, LAMBDA c : c # "=")
  IN BytesOfDigits([k \in 1..Len(body) |-> IndexOf(Base64Alphabet, body[k]) - 1])

\* Convert.FromBase64Url of a base64url string.
FromBase64Url(text) ==
  BytesOfDigits([k \in 1..Len(text) |-> IndexOf(Base64UrlAlphabet, text[k]) - 1])

----------------------------------------------------------------------------
(* PemConverter: base64 between tag-bearing boundary lines *)

Dashes == <<"-", "-", "-", "-", "-">>

BeginMark == Dashes \o <<"B", "E", "G", "I", "N", " ">>

EndMark == Dashes \o <<"E", "N", "D", " ">>

Whitespace == {" ", "\n", "\r", "\t"}

TagChars == {c \in Range(Base64Alphabet) : IndexOf(Base64Alphabet, c) <= 26}
              \cup {c \in Range(HexDigits) : IndexOf(HexDigits, c) <= 10} \cup {" "}

PemBodyChars == Range(Base64Alphabet) \cup {"=", "\n", "\r"}

\* The first position >= pos whose character is not in S (Len + 1 if none).
SkipWhile(text, pos, S) ==
  LET stop == {i \in pos..Len(text) : text[i] \notin S}
  IN IF stop = {} THEN Len(text) + 1 ELSE CHOOSE i \in stop : \A j \in stop : i <= j

\* PemConverter.encode(rawData, tag): one boundary line, the base64 text, the
\* closing boundary line.
PemEncode(bytes, tag) ==
  BeginMark \o tag \o Dashes \o <<"\n">> \o ToBase64(bytes) \o <<"\n">> \o EndMark \o tag \o Dashes

\* The object that starts at the first non-blank character: [ok, body].
PemObject(text) ==
  LET bad == [ok |-> FALSE, body |-> <<>>]
      start == SkipWhile(text, 1, Whitespace)
      tag1 == start + Len(BeginMark)
      tagEnd == SkipWhile(text, tag1, TagChars)
      body1 == tagEnd + Len(Dashes)
      bodyEnd == SkipWhile(text, body1, PemBodyChars)
      tag2 == bodyEnd + Len(EndMark)
      tag2End == SkipWhile(text, tag2, TagChars)
  IN IF /\ Match(text, start, BeginMark)
        /\ tagEnd > tag1
        /\ Match(text, tagEnd, Dashes)
        /\ Match(text, bodyEnd, EndMark)
        /\ tag2End > tag2
        /\ Match(text, tag2End, Dashes)
       THEN [ok |-> TRUE,
             body |-> SelectSeq(SubSeq(text, body1, bodyEnd - 1), LAMBDA c : c \notin {"\n", "\r"})]
       ELSE bad

\* PemConverter.isPem
isPem(text) == PemObject(text).ok /\ isBase64(PemObject(text).body)

\* PemConverter.decode(pem)[0]
PemDecodeFirst(text) == FromBase64(PemObject(text).body)

----------------------------------------------------------------------------
(* PemData *)

\* toArrayBuffer with base64 tried before hex.
toArrayBufferBase64First(raw) ==
  IF raw.kind = "string"
    THEN IF isPem(raw.text) THEN Bytes(PemDecodeFirst(raw.text))
         ELSE IF isBase64(raw.text) THEN Bytes(FromBase64(raw.text))
         ELSE IF isHex(raw.text) THEN Bytes(FromHex(raw.text))
         ELSE IF isBase64Url(raw.text) THEN Bytes(FromBase64Url(raw.text))
         ELSE Throw("TypeError")
    ELSE Bytes(raw.bytes)

\* toArrayBuffer without its base64url branch.
toArrayBufferNoBase64Url(raw) ==
  IF raw.kind = "string"
    THEN IF isPem(raw.text) THEN Bytes(PemDecodeFirst(raw.text))
         ELSE IF isHex(raw.text) THEN Bytes(FromHex(raw.text))
         ELSE IF isBase64(raw.text) THEN Bytes(FromBase64(raw.text))
         ELSE Throw("TypeError")
    ELSE Bytes(raw.bytes)

\* PemData.toArrayBuffer(raw)
toArrayBuffer(raw) ==
  IF raw.kind = "string"
    THEN IF isPem(raw.text) THEN Bytes(PemDecodeFirst(raw.text))
         ELSE IF isHex(raw.text) THEN Bytes(FromHex(raw.text))
         ELSE IF isBase64(raw.text) THEN Bytes(FromBase64(raw.text))
         ELSE IF isBase64Url(raw.text) THEN Bytes(FromBase64Url(raw.text))
         ELSE Throw("TypeError")
    ELSE Bytes(raw.bytes)

\* PemData.toString(format) of an object with the given rawData and tag; kind
\* "error" is the TypeError of the default case.
toString(rawData, tag, format) ==
  CASE format = "pem" -> Text(PemEncode(rawData, tag))
    [] format = "hex" -> Text(ToHex(rawData))
    [] format = "base64" -> Text(ToBase64(rawData))
    [] format = "base64url" -> Text(ToBase64Url(rawData))
    [] OTHER -> [kind |-> "error", text |-> <<>>, bytes |-> <<>>]

----------------------------------------------------------------------------
(* SpecPem: toString and toArrayBuffer applied to bounded inputs *)

AsnExportType == {"hex", "base64", "base64url", "pem"}

CertificateTag == <<"C", "E", "R", "T", "I", "F", "I", "C", "A", "T", "E">>

PemTags == {CertificateTag, <<"X", "5", "0", "9", " ", "C", "R", "L">>}

\* Texts given to toArrayBuffer that no toString call produced.
DirectTexts ==
  SeqsUpTo(TextChars, MaxTextLen)
    \cup {<<"a", "b", "c", "d">>, <<"A", "B", "C", "D", "0", "1", "2", "3">>, <<"a", "b", "c">>,
          <<"-", "_">>, <<"a", "_", "Q", "w">>, <<"*">>, <<"a", " ", "b">>, <<"z", "z">>,
          <<"Q", "Q", "=", "=">>, <<"+", "/", "+", "/">>,
          <<" ", "\n">> \o PemEncode(<<1, 2, 3>>, <<"U", "N", "K", "N", "O", "W", "N">>) \o <<"\n">>,
          PemEncode(<<105, 183, 29>>, CertificateTag) \o <<"\n">> \o PemEncode(<<7>>, CertificateTag),
          BeginMark \o CertificateTag \o Dashes,
          BeginMark \o CertificateTag \o Dashes \o <<"a", "b", "c", "d">> \o EndMark \o Dashes}

DirectInputs == {Text(t) : t \in DirectTexts} \cup {Buffer(b) : b \in SeqsUpTo(PemByteVals, 2)}

InitPem ==
  /\ FmtIdle
  /\ CreateIdle
  /\ namedCurveSize = RegisteredSizes
  /\ codecSignByte = FALSE
  /\ pemOut = Null
  /\ \/ /\ pemOrigin = "object"
        /\ pemPc = "encode"
        /\ pemData \in SeqsUpTo(PemByteVals, MaxDataLen)
        /\ pemFormat \in AsnExportType \cup {"der"}
        /\ pemTag \in IF pemFormat = "pem" THEN PemTags ELSE {CertificateTag}
        /\ pemInput = Buffer(<<>>)
     \/ /\ pemOrigin = "direct"
        /\ pemPc = "decode"
        /\ pemData = <<>>
        /\ pemFormat = "none"
        /\ pemTag = <<>>
        /\ pemInput \in DirectInputs

\* text = object.toString(format)
PemToString ==
  /\ pemPc = "encode"
  /\ LET text == toString(pemData, pemTag, pemFormat)
     IN IF text.kind = "error"
          THEN pemPc' = "failed" /\ UNCHANGED pemInput
          ELSE pemPc' = "decode" /\ pemInput' = text
  /\ UNCHANGED <<pemData, pemTag, pemFormat, pemOut, pemOrigin>>
  /\ UNCHANGED <<namedCurveSize, codecSignByte, fmtVars, createVars>>

\* PemData.toArrayBuffer(input)
PemToArrayBuffer ==
  /\ pemPc = "decode"
  /\ pemOut' = toArrayBuffer(pemInput)
  /\ pemPc' = "done"
  /\ UNCHANGED <<pemData, pemTag, pemFormat, pemInput, pemOrigin>>
  /\ UNCHANGED <<namedCurveSize, codecSignByte, fmtVars, createVars>>

NextPem == PemToString \/ PemToArrayBuffer

SpecPem == InitPem /\ [][NextPem]_vars

----------------------------------------------------------------------------
(* Claims about the codec, checked under SpecPem *)

\* C2 as stated: every encode-then-decode returns the object's bytes.
C2_RoundTripAllFormats ==
  (pemPc = "done" /\ pemOrigin = "object") => pemOut = Bytes(pemData)

\* C2 amended: decoding the text of toString(F) returns the object's bytes when
\* F is hex or pem, and for base64 and base64url whenever the text is not
\* itself accepted by the hex classifier.
C2_RoundTripUnlessHex ==
  (/\ pemPc = "done"
   /\ pemOrigin = "object"
   /\ pemFormat \in {"hex", "pem"} \/ ~isHex(pemInput.text))
    => pemOut = Bytes(pemData)

\* C2 witness: a three-byte object came back from its base64url text, which
\* uses a URL-safe character and so is not base64 either.
C2_Witness ==
  /\ pemPc = "done" /\ pemOrigin = "object" /\ pemFormat = "base64url"
  /\ Len(pemData) = 3
  /\ \E i \in 1..Len(pemInput.text) : pemInput.text[i] \in {"-", "_"}
  /\ ~isBase64(pemInput.text)
  /\ pemOut = Bytes(pemData)

\* C3: toArrayBuffer returns a buffer argument unchanged; for a string it uses
\* the decoder of the first of PEM, hex, base64, base64url that accepts the
\* text (so hex wins over base64), and fails when none accepts it.
C3_ClassifierPriority ==
  pemPc = "done" =>
    LET t == pemInput.text
    IN IF pemInput.kind = "buffer" THEN pemOut = Bytes(pemInput.bytes)
       ELSE /\ isPem(t) => pemOut = Bytes(PemDecodeFirst(t))
            /\ (~isPem(t) /\ isHex(t)) => pemOut = Bytes(FromHex(t))
            /\ (~isPem(t) /\ ~isHex(t) /\ isBase64(t)) => pemOut = Bytes(FromBase64(t))
            /\ (~isPem(t) /\ ~isHex(t) /\ ~isBase64(t) /\ isBase64Url(t))
                 => pemOut = Bytes(FromBase64Url(t))
            /\ (~isPem(t) /\ ~isHex(t) /\ ~isBase64(t) /\ ~isBase64Url(t))
                 => pemOut.kind = "error"
            /\ (isHex(t) /\ isBase64(t)) => pemOut = Bytes(FromHex(t))

\* C3 witness: a text that is both hex and base64, with different decodings,
\* has been decoded as hex.
C3_Witness ==
  /\ pemPc = "done" /\ pemOrigin = "direct" /\ pemInput.kind = "string"
  /\ isHex(pemInput.text) /\ isBase64(pemInput.text)
  /\ FromHex(pemInput.text) # FromBase64(pemInput.text)
  /\ pemOut = Bytes(FromHex(pemInput.text))

----------------------------------------------------------------------------
(* Signature formatters held by the container *)

Reverse(seq) == [i \in 1..Len(seq) |-> seq[Len(seq) + 1 - i]]

\* Algorithm names the formatters "F1" and "F2" accept.
StubAccepts(id) == IF id = "F1" THEN {"ECDSA", "RSASSA-PKCS1-v1_5"} ELSE {"ECDSA"}

\* A byte that tells whose result a structured signature is.
StubMark(id) == IF id = "F1" THEN <<241>> ELSE <<242>>

\* IAsnSignatureFormatter.toAsnSignature of a formatter other than the EC one:
\* null unless it accepts the algorithm.
StubToAsn(id, algorithm, signature) ==
  IF Field(algorithm, "name") \in StubAccepts(id)
    THEN Bytes(StubMark(id) \o signature)
    ELSE Null

\* signatureFormatter.toAsnSignature(signingAlgorithm, signature)
FormatterToAsn(id, algorithm, signature) ==
  IF id = "ec" THEN toAsnSignature(algorithm, signature) ELSE StubToAsn(id, algorithm, signature)

\* The index of the first formatter of the list whose result is not null (0 if none).
FirstAccepting(formatters, algorithm, signature) ==
  LET hits == {i \in 1..Len(formatters) :
                 FormatterToAsn(formatters[i], algorithm, signature).kind # "null"}
  IN IF hits = {} THEN 0 ELSE CHOOSE i \in hits : \A j \in hits : i <= j

\* The conversion loop in registration order (resolveAll without reverse).
ConvertSignatureOldestFirst(registered, algorithm, signature) ==
  LET first == FirstAccepting(registered, algorithm, signature)
  IN [asnSignature |-> IF first = 0 THEN Null
                       ELSE FormatterToAsn(registered[first], algorithm, signature),
      called |-> IF first = 0 THEN registered ELSE SubSeq(registered, 1, first)]

\* The conversion loop falling back to the raw signature when every formatter declines.
ConvertSignatureRawFallback(registered, algorithm, signature) ==
  LET formatters == Reverse(registered)
      first == FirstAccepting(formatters, algorithm, signature)
  IN [asnSignature |-> IF first = 0 THEN Bytes(signature)
                       ELSE FormatterToAsn(formatters[first], algorithm, signature),
      called |-> IF first = 0 THEN formatters ELSE SubSeq(formatters, 1, first)]

\* resolveAll(diAsnSignatureFormatter).reverse(), then the loop that stops at
\* the first result that is not null: the result (Null if none) and the
\* formatters called, in order.
ConvertSignature(registered, algorithm, signature) ==
  LET formatters == Reverse(registered)
      first == FirstAccepting(formatters, algorithm, signature)
  IN [asnSignature |-> IF first = 0 THEN Null
                       ELSE FormatterToAsn(formatters[first], algorithm, signature),
      called |-> IF first = 0 THEN formatters ELSE SubSeq(formatters, 1, first)]

----------------------------------------------------------------------------
(* X509CertificateGenerator *)

ConversionError == "Cannot convert ASN.1 signature value to WebCrypto format"

\* { ...a, ...b } with the operands the other way round.
SpreadCallerWins(a, b) ==
  [f \in DOMAIN a \cup DOMAIN b |-> IF f \in DOMAIN a THEN a[f] ELSE b[f]]

\* { ...a, ...b }: the properties of a, then those of b over them.
Spread(a, b) ==
  [f \in DOMAIN a \cup DOMAIN b |-> IF f \in DOMAIN b THEN b[f] ELSE a[f]]

\* algProv.toAsnAlgorithm(signingAlgorithm)
toAsnAlgorithm(algorithm) ==
  [algorithm |-> Field(algorithm, "name"), hash |-> Field(algorithm, "hash")]

\* The default Name of a new TBSCertificate, and a Name parsed from params.
DefaultName == [rdn |-> ""]

ParseName(name) == [rdn |-> name]

\* AsnConvert.parse(spki, SubjectPublicKeyInfo)
ParseSpki(spki) == [subjectPublicKey |-> spki]

\* AsnConvert.serialize(asnX509.tbsCertificate)
SerializeTbs(tbsCertificate) == [der |-> "TBSCertificate", of |-> tbsCertificate]

\* AsnConvert.serialize(asnX509): the body's encoding, the algorithm, the signature.
SerializeCertificate(asnX509) ==
  [der |-> "Certificate",
   tbsCertificate |-> SerializeTbs(asnX509.tbsCertificate),
   signatureAlgorithm |-> asnX509.signatureAlgorithm,
   signatureValue |-> asnX509.signatureValue]

\* The params createSelfSigned hands to create.
SelfSignedToCreate(params) ==
  [serialNumber |-> params.serialNumber,
   subject |-> params.name,
   issuer |-> params.name,
   notBefore |-> params.notBefore,
   notAfter |-> params.notAfter,
   publicKey |-> params.keys.publicKey,
   signingKey |-> params.keys.privateKey,
   signingAlgorithm |-> params.signingAlgorithm,
   extensions |-> params.extensions]

\* new asn1X509.Certificate({ tbsCertificate: ... }), then subject and issuer
\* when params gives them.
NewCertificate(params, spki) ==
  [tbsCertificate |->
     [version |-> "v3",
      serialNumber |-> FromHex(params.serialNumber),
      validity |-> [notBefore |-> params.notBefore, notAfter |-> params.notAfter],
      extensions |-> params.extensions,
      subjectPublicKeyInfo |-> ParseSpki(spki),
      subject |-> IF params.subject # "" THEN ParseName(params.subject) ELSE DefaultName,
      issuer |-> IF params.issuer # "" THEN ParseName(params.issuer) ELSE DefaultName,
      signature |-> NoAlgorithm],
   signatureAlgorithm |-> NoAlgorithm,
   signatureValue |-> <<>>]

\* The effective signing algorithm.
SigningAlgorithm(params) == Spread(params.signingAlgorithm, params.signingKey.algorithm)

\* create from the answer of exportKey to the call of sign: the locals kept
\* across the await.
PrepareToSign(params, spki) ==
  LET signingAlgorithm == SigningAlgorithm(params)
      algorithmId == toAsnAlgorithm(signingAlgorithm)
      new == NewCertificate(params, spki)
      asnX509 == [new EXCEPT !.tbsCertificate.signature = algorithmId,
                             !.signatureAlgorithm = algorithmId]
  IN [asnX509 |-> asnX509,
      signingAlgorithm |-> signingAlgorithm,
      tbs |-> SerializeTbs(asnX509.tbsCertificate)]

\* The signed certificate with the body's issuer reset after signing.
SignedCertificateBodyTouched(asnX509, asnSignature) ==
  SerializeCertificate([asnX509 EXCEPT !.signatureValue = asnSignature,
                                       !.tbsCertificate.issuer = DefaultName])

\* asnX509.signatureValue = asnSignature; AsnConvert.serialize(asnX509)
SignedCertificate(asnX509, asnSignature) ==
  SerializeCertificate([asnX509 EXCEPT !.signatureValue = asnSignature])

\* An awaited promise that rejects throws its reason out of the async function,
\* here wrapped into an error of the generator's own.
AwaitRejectedWrapped(reason) == Failure("Cannot create certificate")

\* An awaited promise that rejects throws its reason out of the async function.
AwaitRejected(reason) == Failure(reason)

\* One slot for the locals of every call (as a static field would be).
SharedFrame(c) == 1

\* The locals of a call live in the call's own frame.
Frame(c) == c

Event(op, by) == [op |-> op, by |-> by]

----------------------------------------------------------------------------
(* Spec: concurrent create and createSelfSigned calls *)

EcKey ==
  [publicKey |-> "ec-public", privateKey |-> [id |-> "ec-private",
     algorithm |-> [name |-> "ECDSA", namedCurve |-> "K-small"]]]

RsaKey ==
  [publicKey |-> "rsa-public", privateKey |-> [id |-> "rsa-private",
     algorithm |-> [name |-> "RSASSA-PKCS1-v1_5", hash |-> "SHA-256"]]]

EcCaller == [name |-> "ECDSA", hash |-> "SHA-256"]

EcCallerOtherCurve == [name |-> "ECDSA", hash |-> "SHA-384", namedCurve |-> "K-big"]

RsaCaller == [name |-> "RSASSA-PKCS1-v1_5", hash |-> "SHA-512"]

\* (caller's descriptor, key pair): agreeing, and disagreeing on the curve, the
\* hash and the name.
AlgorithmAndKey ==
  {<<EcCaller, EcKey>>, <<EcCallerOtherCurve, EcKey>>, <<RsaCaller, RsaKey>>, <<EcCaller, RsaKey>>}

CreateParams ==
  {[serialNumber |-> <<"0", "1">>, subject |-> "CN=Subject", issuer |-> "CN=Issuer",
    notBefore |-> "2020", notAfter |-> "2021", extensions |-> <<>>,
    publicKey |-> EcKey.publicKey, signingKey |-> ak[2].privateKey,
    signingAlgorithm |-> ak[1]] : ak \in AlgorithmAndKey}
    \cup {[serialNumber |-> <<"0", "3">>, subject |-> "", issuer |-> "CN=Issuer",
           notBefore |-> "2020", notAfter |-> "2021", extensions |-> <<>>,
           publicKey |-> RsaKey.publicKey, signingKey |-> EcKey.privateKey,
           signingAlgorithm |-> EcCaller]}

SelfSignedParams ==
  {[serialNumber |-> <<"0", "2">>, name |-> "CN=Self",
    notBefore |-> "2020", notAfter |-> "2022", extensions |-> <<>>,
    keys |-> [publicKey |-> ak[2].publicKey, privateKey |-> ak[2].privateKey],
    signingAlgorithm |-> ak[1]] : ak \in {<<EcCaller, EcKey>>, <<RsaCaller, RsaKey>>}}

\* The containers the calls may find: no formatter, the EC formatter alone,
\* and pairs in both registration orders.
Registries == {<<>>, <<"ec">>, <<"F1", "ec">>, <<"F1", "F2">>, <<"F2", "F1">>}

\* What the external provider may answer.
ExportKey(publicKey) == <<"spki", publicKey>>

SignOutputs(algorithm) ==
  IF Field(algorithm, "name") = "ECDSA" THEN {<<0, 5>>, <<128, 1>>} ELSE {<<0, 7, 9>>}

SignatureChoices == SignOutputs(EcCaller) \cup SignOutputs(RsaCaller)

ProviderErrors == {"OperationError"}

Init ==
  /\ FmtIdle
  /\ PemIdle
  /\ namedCurveSize = RegisteredSizes
  /\ codecSignByte \in BOOLEAN
  /\ registry \in Registries
  /\ callPc = [c \in Calls |-> "idle"]
  /\ callEntry = [c \in Calls |-> "none"]
  /\ callParams = [c \in Calls |-> NoParams]
  /\ callFrame = [c \in Calls |-> NoFrame]
  /\ callExt = [c \in Calls |-> NoExt]
  /\ callSigned = [c \in Calls |-> NoSignCall]
  /\ callTrace = [c \in Calls |-> <<>>]
  /\ callResult = [c \in Calls |-> NoResult]

\* create(params) up to its first await: exportKey is called.
Create(c, params) ==
  /\ callPc[c] = "idle"
  /\ callPc' = [callPc EXCEPT ![c] = "export"]
  /\ callEntry' = [callEntry EXCEPT ![c] = "create"]
  /\ callParams' = [callParams EXCEPT ![c] = params]
  /\ callTrace' = [callTrace EXCEPT ![c] = <<Event("exportKey", "")>>]
  /\ UNCHANGED <<registry, callFrame, callExt, callSigned, callResult>>
  /\ UNCHANGED <<namedCurveSize, codecSignByte, fmtVars, pemVars>>

\* createSelfSigned(params): create with the params it builds.
CreateSelfSigned(c, params) ==
  /\ callPc[c] = "idle"
  /\ callPc' = [callPc EXCEPT ![c] = "export"]
  /\ callEntry' = [callEntry EXCEPT ![c] = "createSelfSigned"]
  /\ callParams' = [callParams EXCEPT ![c] = SelfSignedToCreate(params)]
  /\ callTrace' = [callTrace EXCEPT ![c] = <<Event("exportKey", "")>>]
  /\ UNCHANGED <<registry, callFrame, callExt, callSigned, callResult>>
  /\ UNCHANGED <<namedCurveSize, codecSignByte, fmtVars, pemVars>>

\* exportKey resolves: the body is assembled, the algorithm set, the body
\* serialized and sign called.
ExportResolves(c) ==
  /\ callPc[c] = "export"
  /\ LET spki == ExportKey(callParams[c].publicKey)
         locals == PrepareToSign(callParams[c], spki)
     IN /\ callExt' = [callExt EXCEPT ![c].export = Resolved(spki)]
        /\ callFrame' = [callFrame EXCEPT ![Frame(c)] = locals]
        /\ callSigned' = [callSigned EXCEPT ![c] =
                            [algorithm |-> locals.signingAlgorithm,
                             key |-> callParams[c].signingKey.id,
                             data |-> locals.tbs]]
  /\ callTrace' = [callTrace EXCEPT ![c] =
                     @ \o <<Event("build", ""), Event("toAsnAlgorithm", ""),
                            Event("serializeTbs", ""), Event("sign", "")>>]
  /\ callPc' = [callPc EXCEPT ![c] = "sign"]
  /\ UNCHANGED <<registry, callEntry, callParams, callResult>>
  /\ UNCHANGED <<namedCurveSize, codecSignByte, fmtVars, pemVars>>

\* exportKey rejects: the call ends with the rejection.
ExportRejects(c, reason) ==
  /\ callPc[c] = "export"
  /\ callExt' = [callExt EXCEPT ![c].export = Rejected(reason)]
  /\ callResult' = [callResult EXCEPT ![c] = AwaitRejected(reason)]
  /\ callPc' = [callPc EXCEPT ![c] = "failed"]
  /\ UNCHANGED <<registry, callEntry, callParams, callFrame, callSigned, callTrace>>
  /\ UNCHANGED <<namedCurveSize, codecSignByte, fmtVars, pemVars>>

\* sign resolves: the formatters are tried, and the certificate is serialized
\* or the conversion error thrown.
SignResolves(c, signature) ==
  /\ callPc[c] = "sign"
  /\ signature \in SignOutputs(callSigned[c].algorithm)
  /\ LET locals == callFrame[Frame(c)]
         conv == ConvertSignature(registry, locals.signingAlgorithm, signature)
         tried == [i \in 1..Len(conv.called) |-> Event("toAsnSignature", conv.called[i])]
     IN /\ callExt' = [callExt EXCEPT ![c].sign = Resolved(signature)]
        /\ IF conv.asnSignature.kind = "bytes"
             THEN /\ callResult' = [callResult EXCEPT ![c] =
                       Certificate(SignedCertificate(locals.asnX509, conv.asnSignature.val))]
                  /\ callTrace' = [callTrace EXCEPT ![c] = @ \o tried \o <<Event("serialize", "")>>]
                  /\ callPc' = [callPc EXCEPT ![c] = "done"]
             ELSE /\ callResult' = [callResult EXCEPT ![c] = Failure(ConversionError)]
                  /\ callTrace' = [callTrace EXCEPT ![c] = @ \o tried]
                  /\ callPc' = [callPc EXCEPT ![c] = "failed"]
  /\ UNCHANGED <<registry, callEntry, callParams, callFrame, callSigned>>
  /\ UNCHANGED <<namedCurveSize, codecSignByte, fmtVars, pemVars>>

\* sign rejects: the call ends with the rejection.
SignRejects(c, reason) ==
  /\ callPc[c] = "sign"
  /\ callExt' = [callExt EXCEPT ![c].sign = Rejected(reason)]
  /\ callResult' = [callResult EXCEPT ![c] = AwaitRejected(reason)]
  /\ callPc' = [callPc EXCEPT ![c] = "failed"]
  /\ UNCHANGED <<registry, callEntry, callParams, callFrame, callSigned, callTrace>>
  /\ UNCHANGED <<namedCurveSize, codecSignByte, fmtVars, pemVars>>

Next ==
  \/ \E c \in Calls, params \in CreateParams : Create(c, params)
  \/ \E c \in Calls, params \in SelfSignedParams : CreateSelfSigned(c, params)
  \/ \E c \in Calls : ExportResolves(c)
  \/ \E c \in Calls, reason \in ProviderErrors : ExportRejects(c, reason)
  \/ \E c \in Calls, signature \in SignatureChoices : SignResolves(c, signature)
  \/ \E c \in Calls, reason \in ProviderErrors : SignRejects(c, reason)

Spec == Init /\ [][Next]_vars

----------------------------------------------------------------------------
(* Claims about create, checked under Spec *)

Ops(c) == [i \in 1..Len(callTrace[c]) |-> callTrace[c][i].op]

\* The formatters whose toAsnSignature call c has made, in call order.
FormattersCalled(c) ==
  LET calls == SelectSeq(callTrace[c], LAMBDA e : e.op = "toAsnSignature")
  IN [i \in 1..Len(calls) |-> calls[i].by]

SignAnswered(c) == callExt[c].sign.state = "resolved"

\* What formatter id answers to the algorithm and signature of call c.
Answer(c, id) == FormatterToAsn(id, callSigned[c].algorithm, callExt[c].sign.val)

\* C4: the formatters are tried from the most recently registered to the
\* least recently registered, the trial goes on only past null results and
\* stops at the first result that is not null, which becomes the signature
\* value; with F1 registered before F2 and both accepting, F2's result is
\* used and F1 is never called.
C4_TrialOrder ==
  \A c \in Calls : SignAnswered(c) =>
    LET called == FormattersCalled(c)
        n == Len(called)
    IN /\ n <= Len(registry)
       /\ \A i \in 1..n : called[i] = registry[Len(registry) + 1 - i]
       /\ \A i \in 1..n - 1 : Answer(c, called[i]).kind = "null"
       /\ callPc[c] = "done" =>
            /\ n >= 1
            /\ Answer(c, called[n]).kind = "bytes"
            /\ callResult[c].rawData.signatureValue = Answer(c, called[n]).val
       /\ callPc[c] = "failed" =>
            /\ n = Len(registry)
            /\ \A i \in 1..n : Answer(c, called[i]).kind = "null"
       /\ (/\ registry = <<"F1", "F2">>
           /\ Answer(c, "F1").kind = "bytes"
           /\ Answer(c, "F2").kind = "bytes")
            => /\ callPc[c] = "done"
               /\ callResult[c].rawData.signatureValue = Answer(c, "F2").val
               /\ called = <<"F2">>

\* C4 witness: F1 was registered before F2, both accept the algorithm of a
\* finished call, and the certificate carries F2's result.
C4_Witness ==
  \E c \in Calls :
    /\ registry = <<"F1", "F2">>
    /\ callPc[c] = "done"
    /\ Answer(c, "F1").kind = "bytes"
    /\ Answer(c, "F2").kind = "bytes"
    /\ Answer(c, "F1").val # Answer(c, "F2").val
    /\ callResult[c].rawData.signatureValue = Answer(c, "F2").val

\* C5: when sign has answered and every registered formatter returns null for
\* the effective algorithm (or none is registered), create fails with the
\* conversion error and returns no certificate.
C5_NoFormatterFails ==
  \A c \in Calls :
    (SignAnswered(c) /\ \A i \in 1..Len(registry) : Answer(c, registry[i]).kind = "null")
      => /\ callPc[c] = "failed"
         /\ callResult[c].kind = "error"
         /\ callResult[c].err = ConversionError
         /\ callResult[c].rawData = NoData

\* C5 witness: the EC formatter alone is registered, the effective algorithm
\* is not ECDSA, sign has answered and the call has failed.
C5_Witness ==
  \E c \in Calls :
    /\ registry = <<"ec">>
    /\ SignAnswered(c)
    /\ Field(callSigned[c].algorithm, "name") # "ECDSA"
    /\ callPc[c] = "failed"
    /\ callResult[c].err = ConversionError

SignCalled(c) == callSigned[c] # NoSignCall

CallerAlgorithm(c) == callParams[c].signingAlgorithm

KeyAlgorithm(c) == callParams[c].signingKey.algorithm

\* The effective algorithm of call c is used for the identifier in both
\* places of the certificate and for the formatter call.
UsedThroughout(c) ==
  LET algorithm == callSigned[c].algorithm
  IN /\ callSigned[c].data.of.signature = toAsnAlgorithm(algorithm)
     /\ callPc[c] = "done" =>
          /\ callResult[c].rawData.signatureAlgorithm = toAsnAlgorithm(algorithm)
          /\ callResult[c].rawData.signatureValue
               = ConvertSignature(registry, algorithm, callExt[c].sign.val).asnSignature.val

\* C7 as stated: every field of the caller's descriptor keeps the caller's
\* value, and the key's value is taken only for fields the caller lacks.
C7_CallerFieldsKept ==
  \A c \in Calls : SignCalled(c) =>
    /\ DOMAIN callSigned[c].algorithm = DOMAIN CallerAlgorithm(c) \cup DOMAIN KeyAlgorithm(c)
    /\ \A f \in DOMAIN CallerAlgorithm(c) : callSigned[c].algorithm[f] = CallerAlgorithm(c)[f]
    /\ \A f \in DOMAIN KeyAlgorithm(c) \ DOMAIN CallerAlgorithm(c) :
         callSigned[c].algorithm[f] = KeyAlgorithm(c)[f]
    /\ UsedThroughout(c)

\* C7 amended: the effective signing algorithm (for the identifier lookup, the
\* sign call and the formatter call) has every field of the key's algorithm
\* with the key's value, and a field takes the caller's value only when the
\* key's algorithm lacks it.
C7_KeyFieldsWin ==
  \A c \in Calls : SignCalled(c) =>
    /\ DOMAIN callSigned[c].algorithm = DOMAIN CallerAlgorithm(c) \cup DOMAIN KeyAlgorithm(c)
    /\ \A f \in DOMAIN KeyAlgorithm(c) : callSigned[c].algorithm[f] = KeyAlgorithm(c)[f]
    /\ \A f \in DOMAIN CallerAlgorithm(c) \ DOMAIN KeyAlgorithm(c) :
         callSigned[c].algorithm[f] = CallerAlgorithm(c)[f]
    /\ UsedThroughout(c)

\* C7 witness: a finished call whose caller asked for SHA-512 with a key bound
\* to SHA-256: the certificate names SHA-256.
C7_Witness ==
  \E c \in Calls :
    /\ callPc[c] = "done"
    /\ Field(CallerAlgorithm(c), "hash") = "SHA-512"
    /\ Field(KeyAlgorithm(c), "hash") = "SHA-256"
    /\ callSigned[c].algorithm.hash = "SHA-256"
    /\ callResult[c].rawData.signatureAlgorithm.hash = "SHA-256"

\* The place of a step in a create call.
Rank(op) ==
  CASE op = "exportKey" -> 1
    [] op = "build" -> 2
    [] op = "toAsnAlgorithm" -> 3
    [] op = "serializeTbs" -> 4
    [] op = "sign" -> 5
    [] op = "toAsnSignature" -> 6
    [] op = "serialize" -> 7

\* C8: the steps of a call happen in the order export, assembly, serialization
\* of the body, sign, formatters, final serialization; sign is called at most
\* once and only after the export has answered, no formatter is called before
\* sign has answered, and the body inside the returned certificate is the
\* serialized body that was signed.
C8_StepOrder ==
  \A c \in Calls :
    LET ops == Ops(c)
    IN /\ Len(ops) > 0 => ops[1] = "exportKey"
       /\ \A i \in 1..Len(ops) - 1 :
            \/ Rank(ops[i + 1]) = Rank(ops[i]) + 1
            \/ ops[i] = "toAsnSignature" /\ ops[i + 1] = "toAsnSignature"
       /\ Cardinality({i \in 1..Len(ops) : ops[i] = "sign"}) <= 1
       /\ (\E i \in 1..Len(ops) : ops[i] = "sign") => callExt[c].export.state = "resolved"
       /\ (\E i \in 1..Len(ops) : ops[i] = "toAsnSignature") => SignAnswered(c)
       /\ callPc[c] = "done" =>
            /\ ops[Len(ops)] = "serialize"
            /\ callResult[c].rawData.tbsCertificate = callSigned[c].data

\* C8 witness: a finished call with an issuer, whose certificate holds the
\* signed body and whose trace runs from export to the final serialization.
C8_Witness ==
  \E c \in Calls :
    /\ callPc[c] = "done"
    /\ callParams[c].issuer # ""
    /\ Ops(c)[1] = "exportKey"
    /\ \E i \in 1..Len(Ops(c)) : Ops(c)[i] = "toAsnSignature"
    /\ Ops(c)[Len(Ops(c))] = "serialize"
    /\ callResult[c].rawData.tbsCertificate = callSigned[c].data

\* A call whose exportKey or sign was rejected has failed with that very
\* reason, called sign at most once, called no formatter, returned nothing.
FailedAsRejected(c) ==
  LET ops == Ops(c)
      rejected(answer) ==
        /\ callPc[c] = "failed"
        /\ callResult[c] = Failure(answer.err)
        /\ \A i \in 1..Len(ops) : ops[i] # "toAsnSignature" /\ ops[i] # "serialize"
  IN /\ callExt[c].export.state = "rejected" =>
          /\ rejected(callExt[c].export)
          /\ \A i \in 1..Len(ops) : ops[i] # "sign"
     /\ callExt[c].sign.state = "rejected" =>
          /\ rejected(callExt[c].sign)
          /\ Cardinality({i \in 1..Len(ops) : ops[i] = "sign"}) = 1

\* C9: a create or createSelfSigned call whose export or sign fails ends with
\* that same failure, unwrapped, without a second sign, a formatter call or a
\* certificate; and no step changes the formatter registry or the point-size
\* table.
C9_FailurePropagates ==
  /\ [](\A c \in Calls : FailedAsRejected(c))
  /\ [][registry' = registry /\ namedCurveSize' = namedCurveSize]_vars

\* C9 witness: a createSelfSigned call has failed with the signer's rejection.
C9_Witness ==
  \E c \in Calls :
    /\ callEntry[c] = "createSelfSigned"
    /\ callExt[c].sign.state = "rejected"
    /\ callPc[c] = "failed"
    /\ callResult[c] = Failure(callExt[c].sign.err)

\* What a call with these params and these answers returns when it runs alone.
RunAlone(params, answers) ==
  IF answers.export.state = "rejected" THEN Failure(answers.export.err)
  ELSE IF answers.sign.state = "rejected" THEN Failure(answers.sign.err)
  ELSE LET locals == PrepareToSign(params, answers.export.val)
           conv == ConvertSignature(registry, locals.signingAlgorithm, answers.sign.val)
       IN IF conv.asnSignature.kind = "bytes"
            THEN Certificate(SignedCertificate(locals.asnX509, conv.asnSignature.val))
            ELSE Failure(ConversionError)

\* C10: under every interleaving, a call waiting for sign still holds the
\* body, algorithm and to-be-signed bytes it built from its own params, and a
\* finished call has returned what it returns when run alone.
C10_CallsIndependent ==
  \A c \in Calls :
    /\ callPc[c] = "sign" =>
         callFrame[c] = PrepareToSign(callParams[c], callExt[c].export.val)
    /\ callPc[c] \in {"done", "failed"} =>
         callResult[c] = RunAlone(callParams[c], callExt[c])

\* C10 witness: two calls with different params have both returned, each a
\* certificate of its own.
C10_Witness ==
  \E c, d \in Calls :
    /\ c # d
    /\ callEntry[c] = "create" /\ callEntry[d] = "createSelfSigned"
    /\ callPc[c] = "done" /\ callPc[d] = "done"
    /\ callParams[c] # callParams[d]
    /\ callResult[c].rawData # callResult[d].rawData
    /\ callResult[c].rawData.tbsCertificate = callSigned[c].data
    /\ callResult[d].rawData.tbsCertificate = callSigned[d].data

----------------------------------------------------------------------------
(* Claims about the formatter, checked under SpecSig *)

FmtPointSize == PointSize(Field(fmtAlg, "namedCurve"))

FmtIsEc == Field(fmtAlg, "name") = "ECDSA"

\* C1: for an ECDSA algorithm whose curve has point size P (registered, or the
\* default for an unregistered or absent curve) and a raw signature of exactly
\* 2P bytes, toWebSignature(alg, toAsnSignature(alg, raw)) is the raw signature
\* itself, whatever R and S are (zero, high bit set).
C1_RoundTrip ==
  (fmtPc = "web" /\ fmtOrigin = "raw" /\ FmtIsEc /\ Len(fmtRaw) = 2 * FmtPointSize)
    => fmtWeb = Bytes(fmtRaw)

\* C1 witness: on the default point size, a round trip has returned a raw
\* signature whose R has its high bit set and whose S is all zero.
C1_Witness ==
  /\ fmtPc = "web" /\ fmtOrigin = "raw" /\ FmtIsEc
  /\ FmtPointSize = defaultNamedCurveSize
  /\ Len(fmtRaw) = 2 * FmtPointSize
  /\ fmtRaw[1] >= 128
  /\ \A i \in FmtPointSize + 1 .. 2 * FmtPointSize : fmtRaw[i] = 0
  /\ fmtWeb = Bytes(fmtRaw)

\* R or S of the parsed structured signature is, once its leading zero bytes
\* are gone, longer than the point size.
FmtOversized ==
  LET sig == ParseEcSig(fmtAsn.val)
  IN /\ sig.ok
     /\ \/ Len(removePadding(sig.r)) > FmtPointSize
        \/ Len(removePadding(sig.s)) > FmtPointSize

\* C6: toWebSignature for an ECDSA algorithm fails when the stripped R or S is
\* longer than the point size, and whatever it returns has 2 * pointSize bytes.
C6_OversizedFails ==
  (fmtPc = "web" /\ FmtIsEc)
    => /\ FmtOversized => fmtWeb.kind = "error"
       /\ fmtWeb.kind = "bytes" => Len(fmtWeb.val) = 2 * FmtPointSize

\* C6 witness: toWebSignature has failed on a well-formed structured signature
\* whose S is one byte too long for a registered curve.
C6_Witness ==
  /\ fmtPc = "web" /\ FmtIsEc /\ fmtOrigin = "asn"
  /\ FmtPointSize = MaxPointSize
  /\ ParseEcSig(fmtAsn.val).ok
  /\ Len(removePadding(ParseEcSig(fmtAsn.val).r)) <= FmtPointSize
  /\ Len(removePadding(ParseEcSig(fmtAsn.val).s)) = FmtPointSize + 1
  /\ fmtWeb.kind = "error"

=============================================================================
